---- MODULE Spec2Model ----
(***************************************************************************)
(* Model of engine/kay/src/id.rs: the actor identifier `ID`, its          *)
(* constructor, the broadcast derivations and predicates, the derived     *)
(* equality and hash, and the Debug rendering.                            *)
(*                                                                         *)
(* A u32 does not fit TLC's integers, so a u32 is kept as two 16-bit      *)
(* limbs <<hi, lo>> standing for hi * 2^16 + lo; u8 and u16 values are    *)
(* plain naturals.                                                        *)
(***************************************************************************)
EXTENDS Integers, Sequences, FiniteSets, TLC

VARIABLES held, made, last

vars == <<held, made, last>>

---------------------------------------------------------------------------
(* Bounds of the model: the concrete tags the allocator hands out.        *)

MaxMachine == 1

MaxSlot == 1

---------------------------------------------------------------------------
(* Fixed-width integers.                                                  *)

Limb == 65536

u8_max_value == 255

u16_max_value == 65535

\* u32::max_value(), as limbs
u32_max_value == <<u16_max_value, u16_max_value>>

\* a u32 literal below 2^16
U32(n) == <<0, n>>

\* the newtype ShortTypeId(u16) of the type registry
ShortTypeId(n) == [raw |-> n]

\* u16::from(ShortTypeId)
u16_from(t) == t.raw

broadcast_sub_actor_id == u32_max_value

broadcast_machine_id == u8_max_value

---------------------------------------------------------------------------
(* Input domains: the scenario values of the documentation, the tags up   *)
(* to the bounds, and both sentinels.                                     *)

TypeTags == {5, u16_max_value}

ShortTypeIds == {ShortTypeId(n) : n \in TypeTags}

Machines == (1 .. MaxMachine) \cup {broadcast_machine_id}

Versions == {0, 1}

SubActorIds == {U32(42 + k) : k \in 0 .. MaxSlot} \cup {broadcast_sub_actor_id}

Contexts == {"a", "b"}

---------------------------------------------------------------------------
(* struct ID and its inherent methods.                                    *)

\* the value of a binding that holds no ID yet
NoID == [type_id |-> ShortTypeId(0), machine |-> 0, version |-> 0,
         sub_actor_id |-> U32(0), none |-> TRUE]

\* fault: machine and version initialisers exchanged
new_machine_version_swapped(type_id, sub_actor_id, machine, version) ==
    [type_id |-> type_id,
     machine |-> version,
     version |-> machine,
     sub_actor_id |-> sub_actor_id]

new(type_id, sub_actor_id, machine, version) ==
    [type_id |-> type_id,
     machine |-> machine,
     version |-> version,
     sub_actor_id |-> sub_actor_id]

\* fault: the machine tag is replaced as well
local_broadcast_all_machines(self) ==
    [self EXCEPT !.sub_actor_id = broadcast_sub_actor_id,
                 !.machine = broadcast_machine_id]

local_broadcast(self) ==
    [self EXCEPT !.sub_actor_id = broadcast_sub_actor_id]

\* fault: the machine tag is not replaced
global_broadcast_keeps_machine(self) == local_broadcast(self)

\* fault: the rest is taken from *self instead of self.local_broadcast()
global_broadcast_keeps_sub_actor(self) ==
    [self EXCEPT !.machine = broadcast_machine_id]

global_broadcast(self) ==
    [local_broadcast(self) EXCEPT !.machine = broadcast_machine_id]

\* fault: the machine tag is tested instead of the sub-actor tag
is_broadcast_by_machine(self) == self.machine = broadcast_machine_id

is_broadcast(self) == self.sub_actor_id = broadcast_sub_actor_id

\* fault: the sub-actor tag is tested as well
is_global_and_broadcast(self) ==
    self.machine = broadcast_machine_id /\ self.sub_actor_id = broadcast_sub_actor_id

is_global_broadcast(self) == self.machine = broadcast_machine_id

---------------------------------------------------------------------------
(* #[derive(PartialEq, Eq, Hash)]: the derived implementations go through *)
(* the fields in declaration order.                                       *)

\* PartialEq of the newtype ShortTypeId
short_type_id_eq(t, u) == t.raw = u.raw

\* PartialEq of u32, on limbs
u32_eq(x, y) == x[1] = y[1] /\ x[2] = y[2]

\* fault: the version field is left out of the comparison
eq_ignoring_version(self, other) ==
    /\ short_type_id_eq(self.type_id, other.type_id)
    /\ self.machine = other.machine
    /\ u32_eq(self.sub_actor_id, other.sub_actor_id)

eq(self, other) ==
    /\ short_type_id_eq(self.type_id, other.type_id)
    /\ self.machine = other.machine
    /\ self.version = other.version
    /\ u32_eq(self.sub_actor_id, other.sub_actor_id)

\* what the derived Hash writes to the hasher: <<width, value>> per field
hash(self) ==
    << <<16, <<u16_from(self.type_id)>> >>,
       <<8, <<self.machine>> >>,
       <<8, <<self.version>> >>,
       <<32, self.sub_actor_id>> >>

---------------------------------------------------------------------------
(* impl Debug for ID.  Text is a sequence of one-character strings.       *)

Digits == <<"0", "1", "2", "3", "4", "5", "6", "7", "8", "9">>

\* "{}" of an unsigned integer: decimal, most significant digit first,
\* no padding.  The division by ten is a long division over the limbs.
RECURSIVE Display(_)
Display(w) ==
    LET t == (w[1] % 10) * Limb + w[2]
    IN  IF w[1] = 0 /\ w[2] < 10
        THEN <<Digits[w[2] + 1]>>
        ELSE Display(<<w[1] \div 10, t \div 10>>) \o <<Digits[(t % 10) + 1]>>

\* fault: the type tag and the machine arguments exchanged
fmt_type_before_machine(self) ==
    <<"I", "D", " ", "@">> \o Display(U32(u16_from(self.type_id)))
        \o <<"_", "?">> \o Display(U32(self.machine))
        \o <<"_", "#">> \o Display(self.sub_actor_id)
        \o <<"_", "v">> \o Display(U32(self.version))

fmt(self) ==
    <<"I", "D", " ", "@">> \o Display(U32(self.machine))
        \o <<"_", "?">> \o Display(U32(u16_from(self.type_id)))
        \o <<"_", "#">> \o Display(self.sub_actor_id)
        \o <<"_", "v">> \o Display(U32(self.version))

---------------------------------------------------------------------------
(* State.  held[c] is the ID bound in context c (NoID before it has one), *)
(* made[c] the arguments of the `new` call it comes from, and last the    *)
(* most recent call: its receiver, its argument and what it returned.     *)

NoCall == [op |-> "none", self |-> NoID, other |-> NoID,
           id |-> NoID, flag |-> FALSE, text |-> <<>>, feed |-> <<>>]

Call(op, self) == [NoCall EXCEPT !.op = op, !.self = self]

\* a receiver is a context's binding or the temporary the last call returned
Receivers == Contexts \cup {"tmp"}

Value(who) == IF who = "tmp" THEN last.id ELSE held[who]

Init ==
    /\ held = [c \in Contexts |-> NoID]
    /\ made = [c \in Contexts |-> <<>>]
    /\ last = NoCall

\* let c = ID::new(t, s, m, v)
New(c, t, s, m, v) ==
    /\ held[c] = NoID
    /\ held' = [held EXCEPT ![c] = new(t, s, m, v)]
    /\ made' = [made EXCEPT ![c] = <<t, s, m, v>>]
    /\ last' = [Call("new", NoID) EXCEPT !.id = new(t, s, m, v)]

\* let d = c  (ID is Copy)
Copy(c, d) ==
    /\ held[c] # NoID
    /\ held[d] = NoID
    /\ held' = [held EXCEPT ![d] = held[c]]
    /\ made' = [made EXCEPT ![d] = made[c]]
    /\ last' = [Call("copy", held[c]) EXCEPT !.id = held[c]]

\* fault: a &mut self method that overwrites the receiver
LocalBroadcastInPlace(who) ==
    /\ Value(who) # NoID
    /\ last' = [Call("local_broadcast", Value(who))
                   EXCEPT !.id = local_broadcast(Value(who))]
    /\ held' = [c \in Contexts |-> IF c = who THEN local_broadcast(held[c]) ELSE held[c]]
    /\ UNCHANGED made

LocalBroadcast(who) ==
    /\ Value(who) # NoID
    /\ last' = [Call("local_broadcast", Value(who))
                   EXCEPT !.id = local_broadcast(Value(who))]
    /\ UNCHANGED <<held, made>>

GlobalBroadcast(who) ==
    /\ Value(who) # NoID
    /\ last' = [Call("global_broadcast", Value(who))
                   EXCEPT !.id = global_broadcast(Value(who))]
    /\ UNCHANGED <<held, made>>

IsBroadcast(who) ==
    /\ Value(who) # NoID
    /\ last' = [Call("is_broadcast", Value(who))
                   EXCEPT !.flag = is_broadcast(Value(who))]
    /\ UNCHANGED <<held, made>>

IsGlobalBroadcast(who) ==
    /\ Value(who) # NoID
    /\ last' = [Call("is_global_broadcast", Value(who))
                   EXCEPT !.flag = is_global_broadcast(Value(who))]
    /\ UNCHANGED <<held, made>>

\* Value(who) == held[c]
Eq(who, c) ==
    /\ Value(who) # NoID
    /\ held[c] # NoID
    /\ last' = [Call("eq", Value(who))
                   EXCEPT !.other = held[c], !.flag = eq(Value(who), held[c])]
    /\ UNCHANGED <<held, made>>

Hash(who) ==
    /\ Value(who) # NoID
    /\ last' = [Call("hash", Value(who)) EXCEPT !.feed = hash(Value(who))]
    /\ UNCHANGED <<held, made>>

\* format!("{:?}", id)
Fmt(who) ==
    /\ Value(who) # NoID
    /\ last' = [Call("fmt", Value(who)) EXCEPT !.text = fmt(Value(who))]
    /\ UNCHANGED <<held, made>>

Next ==
    \/ \E c \in Contexts, t \in ShortTypeIds, s \in SubActorIds,
          m \in Machines, v \in Versions : New(c, t, s, m, v)
    \/ \E c \in Contexts, d \in Contexts : Copy(c, d)
    \/ \E who \in Receivers : LocalBroadcast(who)
    \/ \E who \in Receivers : GlobalBroadcast(who)
    \/ \E who \in Receivers : IsBroadcast(who)
    \/ \E who \in Receivers : IsGlobalBroadcast(who)
    \/ \E who \in Receivers, c \in Contexts : Eq(who, c)
    \/ \E who \in Receivers : Hash(who)
    \/ \E who \in Receivers : Fmt(who)

Spec == Init /\ [][Next]_vars

---------------------------------------------------------------------------
(* What the properties below speak about.                                 *)

\* every ID present in the state
Known == ({held[c] : c \in Contexts} \cup {last.self, last.other, last.id}) \ {NoID}

\* the four fields, the u32 spelled out in limbs
Fields(i) == <<i.type_id.raw, i.machine, i.version, i.sub_actor_id[1], i.sub_actor_id[2]>>

Scenario1 == [type_id |-> [raw |-> 5], machine |-> 1, version |-> 0,
              sub_actor_id |-> <<0, 42>>]

---------------------------------------------------------------------------
\* C1: local_broadcast(i) has the sub-actor tag 2^32-1 and the type tag,
\* machine tag and version tag of i; so it is a broadcast, and it is a
\* global broadcast exactly when i is.
LocalBroadcastKeepsTypeMachineVersion ==
    last.op = "local_broadcast" =>
        /\ last.id.sub_actor_id = <<65535, 65535>>
        /\ last.id.type_id = last.self.type_id
        /\ last.id.machine = last.self.machine
        /\ last.id.version = last.self.version
        /\ is_broadcast(last.id)
        /\ is_global_broadcast(last.id) <=> is_global_broadcast(last.self)

LocalBroadcastOfScenario1 ==
    /\ last.op = "local_broadcast"
    /\ last.self = Scenario1
    /\ Fields(last.id) = <<5, 1, 0, 65535, 65535>>
    /\ is_broadcast(last.id)
    /\ ~is_global_broadcast(last.id)

---------------------------------------------------------------------------
\* C2: global_broadcast(i) is local_broadcast(i) with the machine tag
\* replaced by 255: exactly (type of i, 255, version of i, 2^32-1); it is
\* a broadcast and a global broadcast.
GlobalBroadcastIsLocalWithMachineSentinel ==
    last.op = "global_broadcast" =>
        /\ last.id = [local_broadcast(last.self) EXCEPT !.machine = 255]
        /\ Fields(last.id) = <<last.self.type_id.raw, 255, last.self.version, 65535, 65535>>
        /\ is_broadcast(last.id)
        /\ is_global_broadcast(last.id)

GlobalBroadcastOfScenario1 ==
    /\ last.op = "global_broadcast"
    /\ last.self = Scenario1
    /\ Fields(last.id) = <<5, 255, 0, 65535, 65535>>

---------------------------------------------------------------------------
\* C3: is_broadcast(i) is true if and only if the sub-actor tag of i is
\* 2^32-1, whatever the other tags are.
IsBroadcastIffSubActorSentinel ==
    last.op = "is_broadcast" =>
        (last.flag <=> (last.self.sub_actor_id[1] = 65535 /\ last.self.sub_actor_id[2] = 65535))

NotBroadcastWithGlobalMachine ==
    /\ last.op = "is_broadcast"
    /\ last.self.machine = 255
    /\ last.self.sub_actor_id = <<0, 42>>
    /\ last.flag = FALSE

---------------------------------------------------------------------------
---------------------------------------------------------------------------
\* C5: every ID built with new and any sequence of local_broadcast and
\* global_broadcast calls that is a global broadcast is a broadcast.
GlobalBroadcastImpliesBroadcast ==
    \A i \in Known : is_global_broadcast(i) => is_broadcast(i)

---------------------------------------------------------------------------
\* C6: equality of IDs is field-wise: i1 = i2 if and only if the type
\* tags, machine tags, version tags and sub-actor tags are pairwise equal;
\* it is reflexive, symmetric and transitive, and IDs with equal fields
\* write the same data to the hasher.
EqIsFieldwise ==
    /\ last.op = "eq" => (last.flag <=> Fields(last.self) = Fields(last.other))
    /\ \A i \in Known : eq(i, i)
    /\ \A i, j \in Known :
          /\ eq(i, j) <=> Fields(i) = Fields(j)
          /\ eq(i, j) => eq(j, i)
          /\ Fields(i) = Fields(j) => hash(i) = hash(j)
    /\ \A i, j, k \in Known : eq(i, j) /\ eq(j, k) => eq(i, k)

UnequalByVersionOnly ==
    /\ last.op = "eq"
    /\ last.flag = FALSE
    /\ last.self.version # last.other.version
    /\ last.self.type_id = last.other.type_id
    /\ last.self.machine = last.other.machine
    /\ last.self.sub_actor_id = last.other.sub_actor_id

---------------------------------------------------------------------------
\* C7: new(t, s, m, v) stores the type tag t, the sub-actor tag s, the
\* machine tag m and the version tag v verbatim, sentinels included, and
\* rejects no argument.
NewStoresArgumentsVerbatim ==
    /\ last.op = "new" =>
          \E c \in Contexts :
              /\ made[c] # <<>>
              /\ last.id.type_id = made[c][1]
              /\ last.id.sub_actor_id = made[c][2]
              /\ last.id.machine = made[c][3]
              /\ last.id.version = made[c][4]
              /\ held[c] = last.id
    /\ \A c \in Contexts :
          held[c] = NoID =>
              \A t \in ShortTypeIds, s \in SubActorIds, m \in Machines, v \in Versions :
                  ENABLED New(c, t, s, m, v)

NewWithBothSentinels ==
    /\ last.op = "new"
    /\ Fields(last.id) = <<5, 255, 1, 65535, 65535>>
    /\ \E c \in Contexts : made[c] = <<[raw |-> 5], <<65535, 65535>>, 255, 1>>

---------------------------------------------------------------------------
\* C8: local_broadcast, global_broadcast, is_broadcast and
\* is_global_broadcast leave every held ID unchanged, and a held ID always
\* equals its value at construction.
ReadOps == {"local_broadcast", "global_broadcast", "is_broadcast", "is_global_broadcast"}

AsConstructed(c) ==
    held[c] = [type_id |-> made[c][1], machine |-> made[c][3],
               version |-> made[c][4], sub_actor_id |-> made[c][2]]

NeverMutatedInPlace ==
    /\ [](\A c \in Contexts : held[c] # NoID => AsConstructed(c))
    /\ [][last'.op \in ReadOps => held' = held]_vars

BroadcastDerivedWhileCopyHeld ==
    /\ last.op = "global_broadcast"
    /\ held["a"] # NoID
    /\ held["b"] = held["a"]
    /\ last.self = held["a"]
    /\ last.id # held["a"]
    /\ AsConstructed("a")
    /\ AsConstructed("b")

---------------------------------------------------------------------------
\* C9: the Debug rendering of an ID is "ID @" machine "_?" type tag "_#"
\* sub-actor tag "_v" version, each field in decimal and in that order;
\* new(5, 42, 1, 0) renders as "ID @1_?5_#42_v0".
IsDigit(ch) == \E d \in 1 .. 10 : Digits[d] = ch

DigitValue(ch) == (CHOOSE d \in 1 .. 10 : Digits[d] = ch) - 1

\* the value of a digit string, in limbs
RECURSIVE DecimalValue(_)
DecimalValue(str) ==
    IF str = <<>>
    THEN <<0, 0>>
    ELSE LET front == DecimalValue(SubSeq(str, 1, Len(str) - 1))
             lo == front[2] * 10 + DigitValue(str[Len(str)])
         IN  <<front[1] * 10 + (lo \div 65536), lo % 65536>>

\* str is the decimal numeral of w: digits only, no leading zero
IsDecimalOf(str, w) ==
    /\ Len(str) >= 1
    /\ \A k \in 1 .. Len(str) : IsDigit(str[k])
    /\ Len(str) > 1 => str[1] # "0"
    /\ DecimalValue(str) = w

RendersAs(text, i) ==
    \E la \in 1 .. 3, lb \in 1 .. 5, lc \in 1 .. 10, ld \in 1 .. 3 :
        LET a == 4
            b == a + la + 2
            c == b + lb + 2
            d == c + lc + 2
        IN  /\ Len(text) = d + ld
            /\ SubSeq(text, 1, 4) = <<"I", "D", " ", "@">>
            /\ IsDecimalOf(SubSeq(text, a + 1, a + la), <<0, i.machine>>)
            /\ SubSeq(text, a + la + 1, b) = <<"_", "?">>
            /\ IsDecimalOf(SubSeq(text, b + 1, b + lb), <<0, i.type_id.raw>>)
            /\ SubSeq(text, b + lb + 1, c) = <<"_", "#">>
            /\ IsDecimalOf(SubSeq(text, c + 1, c + lc), i.sub_actor_id)
            /\ SubSeq(text, c + lc + 1, d) = <<"_", "v">>
            /\ IsDecimalOf(SubSeq(text, d + 1, d + ld), <<0, i.version>>)

DebugRendering ==
    last.op = "fmt" =>
        /\ RendersAs(last.text, last.self)
        /\ last.self = Scenario1 =>
              last.text = <<"I", "D", " ", "@", "1", "_", "?", "5", "_", "#",
                            "4", "2", "_", "v", "0">>

RenderedGlobalBroadcast ==
    /\ last.op = "fmt"
    /\ Fields(last.self) = <<65535, 255, 1, 65535, 65535>>
    /\ last.text = <<"I", "D", " ", "@", "2", "5", "5", "_", "?",
                     "6", "5", "5", "3", "5", "_", "#",
                     "4", "2", "9", "4", "9", "6", "7", "2", "9", "5",
                     "_", "v", "1">>

---------------------------------------------------------------------------
\* C10: local_broadcast and global_broadcast are idempotent, global
\* absorbs local in either order, global_broadcast depends only on the
\* type tag and version tag, and local_broadcast does not depend on the
\* sub-actor tag.
BroadcastIdempotentAndAbsorbing ==
    /\ \A i \in Known :
          /\ local_broadcast(local_broadcast(i)) = local_broadcast(i)
          /\ global_broadcast(global_broadcast(i)) = global_broadcast(i)
          /\ global_broadcast(local_broadcast(i)) = global_broadcast(i)
          /\ local_broadcast(global_broadcast(i)) = global_broadcast(i)
    /\ \A i, j \in Known :
          /\ (i.type_id = j.type_id /\ i.version = j.version)
                => global_broadcast(i) = global_broadcast(j)
          /\ (i.type_id = j.type_id /\ i.version = j.version /\ i.machine = j.machine)
                => local_broadcast(i) = local_broadcast(j)
    /\ (last.op = "local_broadcast" /\ last.self.sub_actor_id = <<65535, 65535>>)
          => last.id = last.self
    /\ (last.op = "global_broadcast" /\ last.self.sub_actor_id = <<65535, 65535>>)
          => last.id = [last.self EXCEPT !.machine = 255]

GlobalOfLocalBroadcast ==
    /\ last.op = "global_broadcast"
    /\ last.self.sub_actor_id = <<65535, 65535>>
    /\ last.self.machine = 1
    /\ held["a"] # NoID
    /\ held["a"].sub_actor_id = <<0, 42>>
    /\ last.self = [held["a"] EXCEPT !.sub_actor_id = <<65535, 65535>>]
    /\ held["b"] # NoID
    /\ held["b"].machine = 255
    /\ held["b"].sub_actor_id = <<0, 43>>
    /\ held["b"].type_id = held["a"].type_id
    /\ held["b"].version = held["a"].version
    /\ last.id = [held["b"] EXCEPT !.sub_actor_id = <<65535, 65535>>]

====
